---- MODULE Spec2Model ----
(***************************************************************************)
(* Model of the Spotify authorization-code flow of src/src/main.rs:        *)
(* the start-login handler send_spotify_code_request, the callback handler *)
(* send_spotify_token_request, and the state registry                      *)
(* (Arc<Mutex<HashSet<String>>>) the two share.  Every request is a        *)
(* process; a step of a request runs its code up to and including the next *)
(* point where it meets another request or the provider: a lock            *)
(* acquisition, a guard drop, the completion of an .await, its return.     *)
(* Strings are sequences of atoms (a character, or a chunk of a constant   *)
(* string).  The contact handlers and the Vec<Contact> behind their mutex   *)
(* are modelled beside it; they share nothing with the authorization flow  *)
(* and run under a specification of their own.                             *)
(***************************************************************************)
EXTENDS Integers, Sequences, FiniteSets, TLC

(***************************************************************************)
(* Bounds of the model.                                                    *)
(***************************************************************************)
NumLogins == 2
NumCallbacks == 2
\* how long the contact list may grow
MaxContacts == 3

Logins == 1..NumLogins
Callbacks == 1..NumCallbacks

(***************************************************************************)
(* Constants of the program.                                               *)
(***************************************************************************)
\* random_alphanum(16), main.rs:188
StateLen == 16
\* rand::distributions::Alphanumeric, cut down from its 62 symbols to two
Alphanumeric == {"a", "b"}
\* dotenv!("CLIENT_ID"), dotenv!("CLIENT_SECRET")
ClientId == <<"CLIENT_ID">>
ClientSecret == <<"CLIENT_SECRET">>
RedirectUri == <<"http", ":", "/", "/", "localhost", ":", "3000", "/", "auth", "/", "callback">>
Scope == <<"streaming", " ", "user-read-email", " ", "user-read-private">>
TokenEndpoint == <<"https", "://", "accounts.spotify.com", "/api/token">>

VARIABLES
    registry,   \* spotify_auth_requests_state: the HashSet<String> behind the mutex
    guard,      \* the request that holds the MutexGuard of the registry, or NoHolder
    buildable,  \* whether the compiled-in configuration yields a query string and a Uri
    lpc,        \* send_spotify_code_request: position of each invocation
    lstate,     \*   its local `state`
    luri,       \*   its local `uri`
    lresp,      \*   the response it returned
    cpc,        \* send_spotify_token_request: position of each invocation
    cq,         \*   its extracted query `q` (code, state)
    crequest,   \*   its local `request` (the outbound POST)
    cresponse,  \*   its local `response` (what the provider answered)
    cbody,      \*   its local `body` (serde_json::Value)
    cresp,      \*   the response it returned
    posts,      \*   how many times it has called request.send()
    contacts,   \* the Vec<Contact> behind the mutex of the contact handlers
    poisoned,   \* whether that mutex is poisoned (a holder panicked)
    lastRequest,    \* the contact request handled last
    lastResponse    \*   and what it was answered

vars == <<registry, guard, buildable, lpc, lstate, luri, lresp,
          cpc, cq, crequest, cresponse, cbody, cresp, posts,
          contacts, poisoned, lastRequest, lastResponse>>
loginVars == <<lpc, lstate, luri, lresp>>
callbackVars == <<cpc, cq, crequest, cresponse, cbody, cresp, posts>>
contactVars == <<contacts, poisoned, lastRequest, lastResponse>>
authVars == <<registry, guard, buildable, loginVars, callbackVars>>

NoHolder == <<"none", 0>>
LoginReq(l) == <<"login", l>>
CallbackReq(r) == <<"callback", r>>
None == <<>>
NoUri == [scheme |-> "", authority |-> "", path_and_query |-> <<>>]
NoQuery == [code |-> <<>>, state |-> <<>>]
NoRequest == [method |-> "", url |-> <<>>, form |-> <<>>, authorization |-> <<>>]
NoProviderResponse == [received |-> FALSE, status |-> 0]

(***************************************************************************)
(* random_alphanum: len samples of thread_rng(), collected into a String.  *)
(* The operator is the set of Strings a call can return, cut down to the   *)
(* streams that repeat one symbol: two calls can return the same String or *)
(* different ones.                                                         *)
(***************************************************************************)
RngStreams == Alphanumeric
Sample(stream, i) == stream
random_alphanum(len) == {[i \in 1..len |-> Sample(stream, i)] : stream \in RngStreams}

(***************************************************************************)
(* Strings: joining and searching sequences of atoms.                      *)
(***************************************************************************)
Contains(text, atom) == \E i \in 1..Len(text) : text[i] = atom
IndexOf(text, atom) ==
    IF Contains(text, atom)
    THEN CHOOSE i \in 1..Len(text) : text[i] = atom /\ \A j \in 1..(i - 1) : text[j] # atom
    ELSE 0

RECURSIVE Join(_, _)
Join(parts, sep) ==
    IF Len(parts) = 0 THEN <<>>
    ELSE IF Len(parts) = 1 THEN parts[1]
    ELSE parts[1] \o <<sep>> \o Join(Tail(parts), sep)

(***************************************************************************)
(* serde_qs::to_string on the json! object of send_spotify_code_request:   *)
(* the keys of a serde_json map come out in sorted order, each value       *)
(* percent-encoded (form encoding: a space becomes "+").                   *)
(***************************************************************************)
EncodeAtom(c) ==
    CASE c = " " -> "+"
      [] c = ":" -> "%3A"
      [] c = "/" -> "%2F"
      [] c = "&" -> "%26"
      [] c = "=" -> "%3D"
      [] c = "?" -> "%3F"
      [] c = "+" -> "%2B"
      [] OTHER -> c
UrlEncode(s) == [i \in 1..Len(s) |-> EncodeAtom(s[i])]

CodeRequestParams(state) ==
    << <<"client_id", ClientId>>,
       <<"redirect_uri", RedirectUri>>,
       <<"response_type", <<"code">>>>,
       <<"scope", Scope>>,
       <<"state", state>> >>

serde_qs_to_string(params) ==
    Join([i \in 1..Len(params) |-> <<params[i][1], "=">> \o UrlEncode(params[i][2])], "&")

\* Uri::builder().scheme(..).authority(..).path_and_query(..).build()
UriBuild(qs) ==
    [scheme |-> "https", authority |-> "accounts.spotify.com",
     path_and_query |-> <<"/authorize/", "?">> \o qs]
\* uri.to_string()
UriToString(uri) == <<uri.scheme, "://", uri.authority>> \o uri.path_and_query

(***************************************************************************)
(* Responses sent to the browser.                                          *)
(***************************************************************************)
NoResponse == [status |-> 0, headers |-> {}, body |-> <<>>]
\* Redirect::to(&uri.to_string()): 303 See Other with a Location header
RedirectTo(location) == [status |-> 303, headers |-> {<<"location", location>>}, body |-> <<>>]
\* AppError::into_response: (INTERNAL_SERVER_ERROR, self.0.to_string())
AppErrorResponse(message) == [status |-> 500, headers |-> {}, body |-> message]
\* (StatusCode::UNAUTHORIZED, String::from("Unauthorized"))
UnauthorizedResponse == [status |-> 401, headers |-> {}, body |-> <<"Unauthorized">>]

(***************************************************************************)
(* The registry: HashSet::insert and HashSet::take.                        *)
(***************************************************************************)
\* Faulty variant of HashSetTake: HashSet::get, which looks up and removes nothing
HashSetGet(set, value) ==
    [found |-> value \in set, set |-> set]
HashSetInsert(set, value) == set \cup {value}
\* Faulty variant of HashSetTake: it empties the set instead of removing one value
HashSetTakeAll(set, value) == [found |-> value \in set, set |-> {}]
\* take returns Some(value) and removes it, or None and leaves the set alone
HashSetTake(set, value) ==
    [found |-> value \in set, set |-> set \ {value}]

\* Contact records, told apart by their first name
ContactValues == {"Alice", "Bob", "Carol"}
\* main.rs:267-278: the list main starts with
InitialContacts == <<"Alice", "Bob">>
NoContactRequest == [op |-> "", id |-> 0]

TypeOK ==
    /\ registry \subseteq random_alphanum(StateLen)
    /\ guard \in {NoHolder} \cup {LoginReq(l) : l \in Logins}
                            \cup {CallbackReq(r) : r \in Callbacks}
    /\ buildable \in BOOLEAN
    /\ lpc \in [Logins -> {"idle", "insert", "done"}]
    /\ cpc \in [Callbacks -> {"idle", "take", "warn", "warned", "send", "json", "done"}]
    /\ posts \in [Callbacks -> 0..1]
    /\ contacts \in Seq(ContactValues) /\ Len(contacts) <= MaxContacts
    /\ poisoned \in BOOLEAN

Init ==
    /\ registry = {}
    /\ guard = NoHolder
    /\ buildable \in BOOLEAN
    /\ lpc = [l \in Logins |-> "idle"]
    /\ lstate = [l \in Logins |-> None]
    /\ luri = [l \in Logins |-> NoUri]
    /\ lresp = [l \in Logins |-> NoResponse]
    /\ cpc = [r \in Callbacks |-> "idle"]
    /\ cq = [r \in Callbacks |-> NoQuery]
    /\ crequest = [r \in Callbacks |-> NoRequest]
    /\ cresponse = [r \in Callbacks |-> NoProviderResponse]
    /\ cbody = [r \in Callbacks |-> None]
    /\ cresp = [r \in Callbacks |-> NoResponse]
    /\ posts = [r \in Callbacks |-> 0]
    /\ contacts = InitialContacts
    /\ poisoned = FALSE
    /\ lastRequest = NoContactRequest
    /\ lastResponse = NoResponse

(***************************************************************************)
(* send_spotify_code_request                                               *)
(***************************************************************************)
\* main.rs:188-203, the configuration yields a Uri: mint the state, build the
\* query string and the Uri, and s.lock() returns (it blocks until the mutex
\* is free)
LoginLock(l) ==
    /\ lpc[l] = "idle"
    /\ buildable
    /\ guard = NoHolder
    /\ \E state \in random_alphanum(StateLen) :
         /\ lstate' = [lstate EXCEPT ![l] = state]
         /\ luri' = [luri EXCEPT ![l] = UriBuild(serde_qs_to_string(CodeRequestParams(state)))]
    /\ guard' = LoginReq(l)
    /\ lpc' = [lpc EXCEPT ![l] = "insert"]
    /\ UNCHANGED <<contactVars, registry, buildable, lresp, callbackVars>>

\* Faulty variant of LoginBuildFails: the state is inserted before the Uri is built
LoginBuildFailsAfterInsert(l) ==
    /\ lpc[l] = "idle"
    /\ ~buildable
    /\ guard = NoHolder
    /\ \E state \in random_alphanum(StateLen) :
         /\ lstate' = [lstate EXCEPT ![l] = state]
         /\ registry' = HashSetInsert(registry, state)
    /\ lresp' = [lresp EXCEPT ![l] = AppErrorResponse(<<"invalid uri">>)]
    /\ lpc' = [lpc EXCEPT ![l] = "done"]
    /\ UNCHANGED <<contactVars, guard, buildable, luri, callbackVars>>

\* main.rs:188-201, `?` on a failed serde_qs::to_string or Uri build: the
\* handler returns the AppError before it touches the registry.
LoginBuildFails(l) ==
    /\ lpc[l] = "idle"
    /\ ~buildable
    /\ \E state \in random_alphanum(StateLen) :
         lstate' = [lstate EXCEPT ![l] = state]
    /\ lresp' = [lresp EXCEPT ![l] = AppErrorResponse(<<"invalid uri">>)]
    /\ lpc' = [lpc EXCEPT ![l] = "done"]
    /\ UNCHANGED <<contactVars, registry, guard, buildable, luri, callbackVars>>

\* Faulty variant of LoginInsert: the redirect is returned and the insert forgotten
LoginRedirectWithoutInsert(l) ==
    /\ lpc[l] = "insert"
    /\ guard = LoginReq(l)
    /\ guard' = NoHolder
    /\ lresp' = [lresp EXCEPT ![l] = RedirectTo(UriToString(luri[l]))]
    /\ lpc' = [lpc EXCEPT ![l] = "done"]
    /\ UNCHANGED <<contactVars, registry, buildable, lstate, luri, callbackVars>>

\* main.rs:203-204, .insert(state); the guard is dropped at the end of the
\* statement and the redirect is returned.
LoginInsert(l) ==
    /\ lpc[l] = "insert"
    /\ guard = LoginReq(l)
    /\ registry' = HashSetInsert(registry, lstate[l])
    /\ guard' = NoHolder
    /\ lresp' = [lresp EXCEPT ![l] = RedirectTo(UriToString(luri[l]))]
    /\ lpc' = [lpc EXCEPT ![l] = "done"]
    /\ UNCHANGED <<contactVars, buildable, lstate, luri, callbackVars>>

(***************************************************************************)
(* The provider (accounts.spotify.com/api/token) and the browser: what     *)
(* they can send.                                                          *)
(***************************************************************************)
\* A state value no start-login request minted
ForgedState == <<"f", "o", "r", "g", "e", "d">>
CallbackQueries ==
    [code : {<<"AUTH_CODE">>}, state : random_alphanum(StateLen) \cup {ForgedState}]

\* A JSON object is the sequence of its members <<key, type, value>>
TokenBody ==
    << <<"access_token", "String", "ACCESS_TOKEN">>,
       <<"expires_in", "Number", "3600">>,
       <<"token_type", "String", "Bearer">> >>
MissingFieldBody ==
    << <<"access_token", "String", "ACCESS_TOKEN">>,
       <<"token_type", "String", "Bearer">> >>
MistypedBody ==
    << <<"access_token", "String", "ACCESS_TOKEN">>,
       <<"expires_in", "String", "soon">>,
       <<"token_type", "String", "Bearer">> >>
ErrorBody ==
    << <<"error", "String", "invalid_grant">>,
       <<"error_description", "String", "Invalid authorization code">> >>
\* The bytes of a response body: well-formed JSON of a document, or not JSON
JsonBody(doc) == [wellformed |-> TRUE, doc |-> doc]
NotJsonBody == [wellformed |-> FALSE, doc |-> <<>>]
ProviderStatuses == {200, 400}
\* The bodies the provider sends with a status: token documents (complete or
\* not) with 200, its error document with 400, and with either something
\* that is not JSON
ProviderBodies(status) ==
    IF status = 200
    THEN {JsonBody(TokenBody), JsonBody(MissingFieldBody), JsonBody(MistypedBody), NotJsonBody}
    ELSE {JsonBody(ErrorBody), NotJsonBody}

\* struct SpotifyToken { access_token: String, expires_in: u64, token_type: String }
HasMember(value, key, type) ==
    \E i \in 1..Len(value) : value[i][1] = key /\ value[i][2] = type
IsSpotifyToken(value) ==
    /\ HasMember(value, "access_token", "String")
    /\ HasMember(value, "expires_in", "Number")
    /\ HasMember(value, "token_type", "String")
Member(value, key) == value[CHOOSE i \in 1..Len(value) : value[i][1] = key][3]

\* BASE64_STANDARD.encode, atom by atom
Base64Encode(s) == [i \in 1..Len(s) |-> "base64:" \o s[i]]

\* main.rs:226-245: the POST to the token endpoint
TokenRequest(code) ==
    [method |-> "POST",
     url |-> TokenEndpoint,
     form |-> << <<"code", code>>,
                 <<"redirect_uri", RedirectUri>>,
                 <<"grant_type", <<"authorization_code">>>> >>,
     authorization |-> <<"Basic", " ">> \o Base64Encode(ClientId \o <<":">> \o ClientSecret)]

\* format!("{body:#?}") of a serde_json::Value: every member printed as
\* "key": Type(value)
RECURSIVE DebugMembers(_)
DebugMembers(value) ==
    IF Len(value) = 0 THEN <<>>
    ELSE <<value[1][1], ": ", value[1][2], "(", value[1][3], ")", ",">>
         \o DebugMembers(Tail(value))
DebugFormat(value) == <<"Object {">> \o DebugMembers(value) \o <<"}">>

\* response.json::<serde_json::Value>(): any well-formed JSON parses
JsonParses(raw) == raw.wellformed

(***************************************************************************)
(* send_spotify_token_request                                              *)
(***************************************************************************)
\* Faulty variant of GuardAfterCondition: the guard bound to a variable that
\* lives to the end of the handler
GuardKeptAfterCondition(r) == CallbackReq(r)

\* The MutexGuard temporary of the `if` condition (main.rs:217) is dropped
\* when the condition has been evaluated, before either branch runs.
GuardAfterCondition(r) == NoHolder

\* main.rs:214-217, the request arrives with its query and s.lock() returns
CallbackLock(r) ==
    /\ cpc[r] = "idle"
    /\ guard = NoHolder
    /\ \E q \in CallbackQueries : cq' = [cq EXCEPT ![r] = q]
    /\ guard' = CallbackReq(r)
    /\ cpc' = [cpc EXCEPT ![r] = "take"]
    /\ UNCHANGED <<contactVars, registry, buildable, loginVars, posts, crequest, cresponse, cbody, cresp>>

\* Faulty variant of CallbackTake: .contains(&q.state) in place of .take(&q.state)
CallbackTakeContains(r) ==
    /\ cpc[r] = "take"
    /\ guard = CallbackReq(r)
    /\ IF cq[r].state \in registry
       THEN /\ crequest' = [crequest EXCEPT ![r] = TokenRequest(cq[r].code)]
            /\ cpc' = [cpc EXCEPT ![r] = "send"]
            /\ posts' = [posts EXCEPT ![r] = posts[r] + 1]
       ELSE /\ cpc' = [cpc EXCEPT ![r] = "warn"]
            /\ UNCHANGED <<crequest, posts>>
    /\ guard' = NoHolder
    /\ UNCHANGED <<contactVars, registry, buildable, loginVars, cq, cresponse, cbody, cresp>>

\* Faulty variant of CallbackTake: .is_some() in place of .is_none()
CallbackTakeInverted(r) ==
    /\ cpc[r] = "take"
    /\ guard = CallbackReq(r)
    /\ LET taken == [found |-> cq[r].state \in registry, set |-> registry \ {cq[r].state}] IN
         /\ registry' = taken.set
         /\ IF ~taken.found
            THEN /\ crequest' = [crequest EXCEPT ![r] = TokenRequest(cq[r].code)]
                 /\ cpc' = [cpc EXCEPT ![r] = "send"]
                 /\ posts' = [posts EXCEPT ![r] = posts[r] + 1]
            ELSE /\ cpc' = [cpc EXCEPT ![r] = "warn"]
                 /\ UNCHANGED <<crequest, posts>>
    /\ guard' = NoHolder
    /\ UNCHANGED <<contactVars, buildable, loginVars, cq, cresponse, cbody, cresp>>

\* Faulty variant of CallbackTake: a state that is not found is registered
CallbackTakeRegisters(r) ==
    /\ cpc[r] = "take"
    /\ guard = CallbackReq(r)
    /\ LET taken == HashSetTake(registry, cq[r].state) IN
         IF taken.found
         THEN /\ registry' = taken.set
              /\ crequest' = [crequest EXCEPT ![r] = TokenRequest(cq[r].code)]
              /\ cpc' = [cpc EXCEPT ![r] = "send"]
              /\ posts' = [posts EXCEPT ![r] = posts[r] + 1]
         ELSE /\ registry' = HashSetInsert(registry, cq[r].state)
              /\ cpc' = [cpc EXCEPT ![r] = "warn"]
              /\ UNCHANGED <<crequest, posts>>
    /\ guard' = GuardAfterCondition(r)
    /\ UNCHANGED <<contactVars, buildable, loginVars, cq, cresponse, cbody, cresp>>

\* main.rs:217-245, .take(&q.state).is_none(): on None go to the warning, on
\* Some build the outbound request and start send()
CallbackTake(r) ==
    /\ cpc[r] = "take"
    /\ guard = CallbackReq(r)
    /\ LET taken == HashSetTake(registry, cq[r].state) IN
         /\ registry' = taken.set
         /\ IF taken.found
            THEN /\ crequest' = [crequest EXCEPT ![r] = TokenRequest(cq[r].code)]
                 /\ cpc' = [cpc EXCEPT ![r] = "send"]
                 /\ posts' = [posts EXCEPT ![r] = posts[r] + 1]
            ELSE /\ cpc' = [cpc EXCEPT ![r] = "warn"]
                 /\ UNCHANGED <<crequest, posts>>
    /\ guard' = GuardAfterCondition(r)
    /\ UNCHANGED <<contactVars, buildable, loginVars, cq, cresponse, cbody, cresp>>

\* Faulty variant of CallbackWarnLock: the warning empties the registry it prints
CallbackWarnLockDrains(r) ==
    /\ cpc[r] = "warn"
    /\ guard = NoHolder
    /\ guard' = CallbackReq(r)
    /\ registry' = {}
    /\ cpc' = [cpc EXCEPT ![r] = "warned"]
    /\ UNCHANGED <<contactVars, buildable, loginVars, posts, cq, crequest, cresponse, cbody, cresp>>

\* main.rs:218-222, the warning locks the registry again to print it
CallbackWarnLock(r) ==
    /\ cpc[r] = "warn"
    /\ guard = NoHolder
    /\ guard' = CallbackReq(r)
    /\ cpc' = [cpc EXCEPT ![r] = "warned"]
    /\ UNCHANGED <<contactVars, registry, buildable, loginVars, posts, cq, crequest, cresponse, cbody, cresp>>

\* Faulty variant of CallbackUnauthorized: it returns without releasing the
\* guard of the warning
CallbackUnauthorizedKeepsGuard(r) ==
    /\ cpc[r] = "warned"
    /\ guard = CallbackReq(r)
    /\ cresp' = [cresp EXCEPT ![r] = UnauthorizedResponse]
    /\ cpc' = [cpc EXCEPT ![r] = "done"]
    /\ UNCHANGED <<contactVars, registry, guard, buildable, loginVars, posts, cq,
                   crequest, cresponse, cbody>>

\* main.rs:222-223, the guard of the warning is dropped and 401 returned
CallbackUnauthorized(r) ==
    /\ cpc[r] = "warned"
    /\ guard = CallbackReq(r)
    /\ guard' = NoHolder
    /\ cresp' = [cresp EXCEPT ![r] = UnauthorizedResponse]
    /\ cpc' = [cpc EXCEPT ![r] = "done"]
    /\ UNCHANGED <<contactVars, registry, buildable, loginVars, posts, cq, crequest, cresponse, cbody>>

\* Faulty variant of CallbackSendFails: the state is put back for a retry
CallbackSendFailsRestores(r) ==
    /\ cpc[r] = "send"
    /\ registry' = registry \cup {cq[r].state}
    /\ cresp' = [cresp EXCEPT ![r] =
                   AppErrorResponse(<<"error sending request for url">> \o crequest[r].url)]
    /\ cpc' = [cpc EXCEPT ![r] = "done"]
    /\ UNCHANGED <<contactVars, guard, buildable, loginVars, posts, cq, crequest, cresponse, cbody>>

\* Faulty variant of CallbackSendFails: a failed send is tried a second time
CallbackSendFailsRetries(r) ==
    /\ cpc[r] = "send"
    /\ IF posts[r] < 2
       THEN /\ posts' = [posts EXCEPT ![r] = posts[r] + 1]
            /\ UNCHANGED <<cpc, cresp>>
       ELSE /\ cresp' = [cresp EXCEPT ![r] =
                           AppErrorResponse(<<"error sending request for url">> \o crequest[r].url)]
            /\ cpc' = [cpc EXCEPT ![r] = "done"]
            /\ UNCHANGED posts
    /\ UNCHANGED <<contactVars, registry, guard, buildable, loginVars, cq, crequest, cresponse, cbody>>

\* main.rs:249, request.send().await? fails (no connection, timeout, ...)
CallbackSendFails(r) ==
    /\ cpc[r] = "send"
    /\ cresp' = [cresp EXCEPT ![r] =
                   AppErrorResponse(<<"error sending request for url">> \o crequest[r].url)]
    /\ cpc' = [cpc EXCEPT ![r] = "done"]
    /\ UNCHANGED <<contactVars, registry, guard, buildable, loginVars, posts, cq, crequest, cresponse, cbody>>

\* main.rs:249, request.send().await returns a response, whatever its status
CallbackSendReturns(r) ==
    /\ cpc[r] = "send"
    /\ \E status \in ProviderStatuses :
         cresponse' = [cresponse EXCEPT ![r] = [received |-> TRUE, status |-> status]]
    /\ cpc' = [cpc EXCEPT ![r] = "json"]
    /\ UNCHANGED <<contactVars, registry, guard, buildable, loginVars, posts, cq, crequest, cbody, cresp>>

\* main.rs:253, response.json().await? fails: the body is not JSON
CallbackJsonFails(r) ==
    /\ cpc[r] = "json"
    /\ \E raw \in ProviderBodies(cresponse[r].status) :
         /\ ~JsonParses(raw)
         /\ cresp' = [cresp EXCEPT ![r] = AppErrorResponse(<<"error decoding response body">>)]
    /\ cpc' = [cpc EXCEPT ![r] = "done"]
    /\ UNCHANGED <<contactVars, registry, guard, buildable, loginVars, posts, cq, crequest, cresponse, cbody>>

\* main.rs:253-255, the body parses as a serde_json::Value and is returned
\* pretty-printed with 200 OK
CallbackJsonOk(r) ==
    /\ cpc[r] = "json"
    /\ \E raw \in ProviderBodies(cresponse[r].status) :
         /\ JsonParses(raw)
         /\ cbody' = [cbody EXCEPT ![r] = raw.doc]
         /\ cresp' = [cresp EXCEPT ![r] =
                        [status |-> 200, headers |-> {}, body |-> DebugFormat(raw.doc)]]
    /\ cpc' = [cpc EXCEPT ![r] = "done"]
    /\ UNCHANGED <<contactVars, registry, guard, buildable, loginVars, posts, cq, crequest, cresponse>>

Next ==
    \/ \E l \in Logins : LoginLock(l)
    \/ \E l \in Logins : LoginBuildFails(l)
    \/ \E l \in Logins : LoginInsert(l)
    \/ \E r \in Callbacks : CallbackLock(r)
    \/ \E r \in Callbacks : CallbackTake(r)
    \/ \E r \in Callbacks : CallbackWarnLock(r)
    \/ \E r \in Callbacks : CallbackUnauthorized(r)
    \/ \E r \in Callbacks : CallbackSendFails(r)
    \/ \E r \in Callbacks : CallbackSendReturns(r)
    \/ \E r \in Callbacks : CallbackJsonFails(r)
    \/ \E r \in Callbacks : CallbackJsonOk(r)

Spec == Init /\ [][Next]_vars

(***************************************************************************)
(* Scheduling.  The runtime polls every spawned handler until it returns,  *)
(* a mutex holder runs to its release without waiting, and the provider    *)
(* eventually answers or the connection errors.  Requests themselves need  *)
(* not arrive.                                                             *)
(***************************************************************************)
CallbackStep(r) ==
    \/ CallbackTake(r)
    \/ CallbackWarnLock(r)
    \/ CallbackUnauthorized(r)
    \/ CallbackSendFails(r)
    \/ CallbackSendReturns(r)
    \/ CallbackJsonFails(r)
    \/ CallbackJsonOk(r)

FairSpec ==
    /\ Spec
    /\ \A l \in Logins : WF_vars(LoginInsert(l))
    /\ \A r \in Callbacks : WF_vars(CallbackStep(r))

(***************************************************************************)
(* The contact handlers.  None of them awaits anything between taking the  *)
(* mutex and returning, so each request is one step.  A handler that       *)
(* panics sends no response; if it held the guard, the mutex is poisoned   *)
(* from then on: lock() returns Err to everyone.                           *)
(***************************************************************************)
\* Path<usize>: indexes inside the list and beyond its end
ContactIds == 0..MaxContacts
\* Result<Form<Contact>, FormRejection>
FormRejection == "FormRejection"
Forms == ContactValues \cup {FormRejection}
\* what the client sees of a handler that panicked: the connection is closed
Panicked == [status |-> 0, headers |-> {}, body |-> <<"panicked">>]
ContactRequest(op, id) == [op |-> op, id |-> id]
IdString(id) == <<"0", "1", "2", "3", "4", "5", "6", "7", "8", "9">>[id + 1]

\* Vec::get / get_mut with a zero-based index
InBounds(list, id) == id < Len(list)
\* Vec::swap_remove, for an index inside the list: the last element takes the
\* place of the removed one.  Beyond the end swap_remove panics.
swap_remove(list, id) ==
    [i \in 1..(Len(list) - 1) |-> IF i = id + 1 THEN list[Len(list)] ELSE list[i]]

\* main.rs:71-93, GET /contacts?page=..: lock().unwrap(), clone, one contact per page
contacts_handler(page) ==
    /\ lastRequest' = ContactRequest("contacts", page)
    /\ IF poisoned
       THEN lastResponse' = Panicked
       ELSE lastResponse' =
              [status |-> 200, headers |-> {},
               body |-> IF InBounds(contacts, page) THEN <<contacts[page + 1]>> ELSE <<>>]
    /\ UNCHANGED <<contacts, poisoned, authVars>>

\* main.rs:144-157, POST /contacts/new
new_contact_request(form) ==
    /\ Len(contacts) < MaxContacts
    /\ lastRequest' = ContactRequest("new_contact_request", 0)
    /\ IF form = FormRejection \/ poisoned
       THEN /\ lastResponse' = RedirectTo(<<"/contacts/new">>)
            /\ UNCHANGED contacts
       ELSE /\ contacts' = Append(contacts, form)
            /\ lastResponse' = RedirectTo(<<"/contacts">>)
    /\ UNCHANGED <<poisoned, authVars>>

\* main.rs:159-175, POST /contacts/{id}/edit
edit_contact_request(id, form) ==
    /\ lastRequest' = ContactRequest("edit_contact_request", id)
    /\ IF form = FormRejection \/ poisoned
       THEN /\ lastResponse' = RedirectTo(<<"/contacts/", IdString(id), "/edit">>)
            /\ UNCHANGED contacts
       ELSE /\ contacts' = IF InBounds(contacts, id)
                           THEN [contacts EXCEPT ![id + 1] = form]
                           ELSE contacts
            /\ lastResponse' = RedirectTo(<<"/contacts">>)
    /\ UNCHANGED <<poisoned, authVars>>

\* main.rs:177-183, DELETE /contacts/{id}: lock().unwrap().swap_remove(id)
delete_contact_request(id) ==
    /\ lastRequest' = ContactRequest("delete_contact_request", id)
    /\ IF poisoned
       THEN /\ lastResponse' = Panicked
            /\ UNCHANGED <<contacts, poisoned>>
       ELSE IF InBounds(contacts, id)
       THEN /\ contacts' = swap_remove(contacts, id)
            /\ lastResponse' = RedirectTo(<<"/contacts">>)
            /\ UNCHANGED poisoned
       ELSE /\ poisoned' = TRUE
            /\ lastResponse' = Panicked
            /\ UNCHANGED contacts
    /\ UNCHANGED authVars

ContactsNext ==
    \/ \E page \in ContactIds : contacts_handler(page)
    \/ \E form \in Forms : new_contact_request(form)
    \/ \E id \in ContactIds : \E form \in Forms : edit_contact_request(id, form)
    \/ \E id \in ContactIds : delete_contact_request(id)

ContactsSpec == Init /\ [][ContactsNext]_vars

(***************************************************************************)
(* Reading the handlers' positions and responses.                          *)
(***************************************************************************)
AllStates == random_alphanum(StateLen) \cup {ForgedState}
\* the take of callback r returned Some: r went on to the token exchange
Validated(r) ==
    \/ cpc[r] \in {"send", "json"}
    \/ cpc[r] = "done" /\ cresp[r].status # 401
\* the take of callback r returned None
Rejected(r) ==
    \/ cpc[r] \in {"warn", "warned"}
    \/ cpc[r] = "done" /\ cresp[r].status = 401
ValidatedWith(t) == {r \in Callbacks : cq[r].state = t /\ Validated(r)}
\* the start-login requests that have inserted t and returned their redirect
RegisteredBy(t) == {l \in Logins : lpc[l] = "done" /\ lresp[l].status = 303 /\ lstate[l] = t}
\* callback r performs its take in this step
TakeStep(r) == cpc[r] = "take" /\ cpc'[r] # "take"
\* the token exchange of callback r is over and failed: no response, a
\* non-2xx status, or a body that is not JSON
ExchangeFailed(r) ==
    /\ cpc[r] = "done"
    /\ crequest[r] # NoRequest
    /\ \/ ~cresponse[r].received
       \/ cresponse[r].status \notin 200..299
       \/ cbody[r] = <<>>
\* the token exchange of callback r is over and succeeded with a token record
ExchangeSucceeded(r) ==
    /\ cpc[r] = "done"
    /\ cresponse[r].received
    /\ cresponse[r].status \in 200..299
    /\ IsSpotifyToken(cbody[r])

\* The browser's reading of a redirect: the Location header, its query
\* string, and the decoded value of a query parameter.
DecodeAtom(c) ==
    CASE c = "+" -> " "
      [] c = "%3A" -> ":"
      [] c = "%2F" -> "/"
      [] c = "%26" -> "&"
      [] c = "%3D" -> "="
      [] c = "%3F" -> "?"
      [] c = "%2B" -> "+"
      [] OTHER -> c
UrlDecode(s) == [i \in 1..Len(s) |-> DecodeAtom(s[i])]
Location(resp) == (CHOOSE h \in resp.headers : h[1] = "location")[2]
\* where the query string of a URL starts: after the first "?"
QueryStart(url) == IndexOf(url, "?") + 1
\* where the parameter that starts at position i ends: before the next "&"
ParamEnd(url, i) ==
    LET stops == {j \in i..Len(url) : url[j] = "&"} IN
    IF stops = {} THEN Len(url)
    ELSE (CHOOSE m \in stops : \A n \in stops : m <= n) - 1
\* the decoded values of the parameters named key
QueryParamValues(url, key) ==
    LET start == QueryStart(url)
        names == {j \in start..(Len(url) - 1) :
                    /\ url[j] = key /\ url[j + 1] = "="
                    /\ (j = start \/ url[j - 1] = "&")}
    IN  {UrlDecode(SubSeq(url, i + 2, ParamEnd(url, i))) : i \in names}
\* a response carries the atom in its body or in a header value
Exposes(resp, atom) ==
    \/ Contains(resp.body, atom)
    \/ \E h \in resp.headers : Contains(h[2], atom)

(***************************************************************************)
(* C1.  A state token is used once: of the callbacks that carry a token    *)
(* t, no more pass the take than start-login requests have registered t,   *)
(* a token still in the registry has one registration nobody has used, and *)
(* a registered token is in the registry or has been taken; a value        *)
(* nobody registered never passes.                                         *)
(***************************************************************************)
C1_SingleUse ==
    \A t \in AllStates :
        LET used == Cardinality(ValidatedWith(t))
            outstanding == IF t \in registry THEN 1 ELSE 0
            registered == Cardinality(RegisteredBy(t))
        IN  /\ used + outstanding <= registered
            /\ registered > 0 => used + outstanding >= 1

\* Two callbacks carried the only registration of a token: one passed, the
\* other was answered 401.
C1_Witness ==
    \E r1, r2 \in Callbacks :
        /\ cq[r1].state = cq[r2].state
        /\ Cardinality(RegisteredBy(cq[r1].state)) = 1
        /\ cpc[r1] = "done" /\ Validated(r1)
        /\ cpc[r2] = "done" /\ cresp[r2] = UnauthorizedResponse

(***************************************************************************)
(* C2.  Of two callbacks that carry the same state token, registered at    *)
(* most once, never both pass the take, in any interleaving; and when the  *)
(* registration is gone from the registry and no third callback took it,   *)
(* one of the two did.                                                     *)
(***************************************************************************)
C2_ExactlyOnePasses ==
    \A r1, r2 \in Callbacks :
        (r1 # r2 /\ cq[r1].state = cq[r2].state
              /\ Cardinality(RegisteredBy(cq[r1].state)) <= 1)
        => /\ ~(Validated(r1) /\ Validated(r2))
           /\ ( /\ Rejected(r1) \/ Validated(r1)
                /\ Rejected(r2) \/ Validated(r2)
                /\ Cardinality(RegisteredBy(cq[r1].state)) = 1
                /\ cq[r1].state \notin registry
                /\ ValidatedWith(cq[r1].state) \subseteq {r1, r2} )
              => (Validated(r1) \/ Validated(r2))

\* Both callbacks are in flight at once: one waits for the provider, the
\* other is on its way to the 401.
C2_Witness ==
    \E r1, r2 \in Callbacks :
        /\ r1 # r2 /\ cq[r1].state = cq[r2].state
        /\ Cardinality(RegisteredBy(cq[r1].state)) = 1
        /\ cpc[r1] \in {"send", "json"}
        /\ cpc[r2] \in {"warn", "warned"}

(***************************************************************************)
(* C3.  A callback whose state is not in the registry goes to the 401      *)
(* answer, and no step it takes from the take to the answer changes the    *)
(* registry.                                                               *)
(***************************************************************************)
C3_UnknownStateUnauthorized ==
    [][\A r \in Callbacks :
        /\ (TakeStep(r) /\ cq[r].state \notin registry)
              => (cpc'[r] = "warn" /\ registry' = registry)
        /\ (cpc[r] \in {"warn", "warned"} /\ cpc'[r] # cpc[r])
              => /\ registry' = registry
                 /\ cpc'[r] \in {"warned", "done"}
                 /\ cpc'[r] = "done" => cresp'[r] = UnauthorizedResponse]_vars

\* A forged state was answered 401 while a token was registered.
C3_Witness ==
    \E r \in Callbacks :
        /\ cpc[r] = "done" /\ cq[r].state = ForgedState
        /\ cresp[r] = UnauthorizedResponse
        /\ registry # {}

(***************************************************************************)
(* C4.  A start-login request that has returned its redirect minted a      *)
(* state of 16 characters, the state parameter of the redirect URL is that *)
(* value, and the value is in the registry unless a callback took it.      *)
(***************************************************************************)
C4_RedirectCarriesRegisteredState ==
    \A l \in Logins :
        (lpc[l] = "done" /\ lresp[l].status = 303)
        => /\ Len(lstate[l]) = 16
           /\ QueryParamValues(Location(lresp[l]), "state") = {lstate[l]}
           /\ \/ lstate[l] \in registry
              \/ ValidatedWith(lstate[l]) # {}

\* A redirect was returned and its state is still registered.
C4_Witness ==
    \E l \in Logins :
        /\ lpc[l] = "done" /\ lresp[l].status = 303
        /\ lstate[l] \in registry
        /\ \E r \in Callbacks : cpc[r] = "done"

(***************************************************************************)
(* C5.  A callback whose state was registered and whose token exchange     *)
(* succeeded answers with a redirect to the home route and a Set-Cookie    *)
(* header session_id=<id>; Max-Age=<expires_in of the provider's body>.    *)
(***************************************************************************)
C5_SuccessSetsSessionCookie ==
    \A r \in Callbacks :
        ExchangeSucceeded(r)
        => /\ cresp[r].status = 303
           /\ \E h \in cresp[r].headers : h[1] = "location" /\ h[2] = <<"/">>
           /\ \E h \in cresp[r].headers :
                /\ h[1] = "set-cookie"
                /\ Len(h[2]) = 5
                /\ h[2][1] = "session_id" /\ h[2][2] = "="
                /\ h[2][4] = "; Max-Age="
                /\ h[2][5] = Member(cbody[r], "expires_in")

(***************************************************************************)
(* C6.  A callback whose token exchange failed (no response, a non-2xx     *)
(* status, a body that is not JSON) answers with the internal-error        *)
(* status, never with a success.                                           *)
(***************************************************************************)
C6_FailedExchangeIsInternalError ==
    \A r \in Callbacks : ExchangeFailed(r) => cresp[r].status = 500

(***************************************************************************)
(* C7.  A callback whose provider body parsed as JSON but is no token      *)
(* record (a required member is missing or has the wrong type) answers     *)
(* with the internal-error status.                                         *)
(***************************************************************************)
C7_MalformedTokenIsInternalError ==
    \A r \in Callbacks :
        (cpc[r] = "done" /\ cbody[r] # <<>> /\ ~IsSpotifyToken(cbody[r]))
        => cresp[r].status = 500

(***************************************************************************)
(* C8.  As claimed: once the token exchange of a callback has failed, a    *)
(* replay of it that arrives later, whatever start-login requests ran in   *)
(* between, finds its state absent from the registry.  (The replay holds   *)
(* the mutex from its arrival to its take, so the take returns None        *)
(* exactly if the state is absent on arrival.)                             *)
(***************************************************************************)
C8_ReplayAlwaysRejected ==
    [][\A r1, r2 \in Callbacks :
        (r1 # r2 /\ ExchangeFailed(r1)
              /\ cpc[r2] = "idle" /\ cpc'[r2] = "take" /\ cq'[r2].state = cq[r1].state)
        => ~HashSetTake(registry', cq'[r2].state).found]_vars

(***************************************************************************)
(* C8, amended.  The step in which the token exchange of a callback fails  *)
(* leaves the registry as it is; and once a callback has taken its state   *)
(* token, as long as the token is not in the registry every take of        *)
(* another callback carrying it returns None, and the token enters the     *)
(* registry again only by the insert of a start-login request that minted  *)
(* the same value.                                                         *)
(***************************************************************************)
C8_ReplayRejectedUntilReminted ==
    [][\A r1 \in Callbacks :
        /\ (~ExchangeFailed(r1) /\ ExchangeFailed(r1)') => registry' = registry
        /\ (Validated(r1) /\ cq[r1].state \notin registry)
              => /\ cq[r1].state \in registry'
                      => \E l \in Logins : /\ lpc[l] = "insert" /\ lpc'[l] = "done"
                                           /\ lstate[l] = cq[r1].state
                 /\ \A r2 \in Callbacks \ {r1} :
                      (cq[r2].state = cq[r1].state /\ TakeStep(r2)) => cpc'[r2] = "warn"]_vars

\* The exchange of one callback failed, its token is gone, and the replay
\* was answered 401.
C8_Witness ==
    \E r1, r2 \in Callbacks :
        /\ r1 # r2 /\ cq[r1].state = cq[r2].state
        /\ ExchangeFailed(r1)
        /\ cq[r1].state \notin registry
        /\ cpc[r2] = "done" /\ cresp[r2] = UnauthorizedResponse
        /\ \A l \in Logins : lpc[l] = "done"

(***************************************************************************)
(* C9.  No response of the callback handler carries the provider's access  *)
(* token, any member value of the provider's response body, or the client  *)
(* secret.                                                                 *)
(***************************************************************************)
C9_NoSecretInResponse ==
    \A r \in Callbacks :
        cpc[r] = "done"
        => /\ ~Exposes(cresp[r], "ACCESS_TOKEN")
           /\ ~Exposes(cresp[r], ClientSecret[1])
           /\ ~Exposes(cresp[r], "base64:" \o ClientSecret[1])
           /\ \A i \in 1..Len(cbody[r]) : ~Exposes(cresp[r], cbody[r][i][3])

(***************************************************************************)
(* C10.  A callback that waits for the provider does not hold the registry *)
(* mutex, and whoever holds it meanwhile is inside a critical section that *)
(* ends with its next step, which waits for nothing.                       *)
(***************************************************************************)
C10_NoLockAcrossExchange ==
    \A r \in Callbacks :
        cpc[r] \in {"send", "json"}
        => /\ guard # CallbackReq(r)
           /\ \A l \in Logins :
                guard = LoginReq(l) => (lpc[l] = "insert" /\ ENABLED LoginInsert(l))
           /\ \A x \in Callbacks :
                guard = CallbackReq(x)
                => \/ cpc[x] = "take" /\ ENABLED CallbackTake(x)
                   \/ cpc[x] = "warned" /\ ENABLED CallbackUnauthorized(x)

\* While one callback waits for the provider, a start-login request holds
\* the mutex and a callback for another state has been answered.
C10_Witness ==
    \E r, x \in Callbacks : \E l \in Logins :
        /\ cpc[r] = "send"
        /\ guard = LoginReq(l)
        /\ cpc[x] = "done" /\ cq[x].state # cq[r].state

(***************************************************************************)
(* C11.  Two callbacks that carried different registered states, and whose *)
(* token exchanges both succeeded, each leave with a session identifier    *)
(* (the id of their Set-Cookie header), and the two identifiers differ.    *)
(***************************************************************************)
SessionIds(response) ==
    {h[2][3] : h \in {c \in response.headers :
                        c[1] = "set-cookie" /\ Len(c[2]) >= 3 /\ c[2][1] = "session_id"}}

C11_ConcurrentSessionsDistinct ==
    \A r1, r2 \in Callbacks :
        (/\ r1 # r2
         /\ cq[r1].state # cq[r2].state
         /\ ExchangeSucceeded(r1) /\ ExchangeSucceeded(r2))
        => /\ SessionIds(cresp[r1]) # {}
           /\ SessionIds(cresp[r2]) # {}
           /\ SessionIds(cresp[r1]) \cap SessionIds(cresp[r2]) = {}

(***************************************************************************)
(* C12.  A login attempt is outstanding once its redirect was returned and *)
(* while its state is in the registry.  As claimed: no two outstanding     *)
(* login attempts hold the same state token.                               *)
(***************************************************************************)
Outstanding(l) ==
    /\ lpc[l] = "done" /\ lresp[l].status = 303
    /\ lstate[l] \in registry

C12_OutstandingTokensUnique ==
    \A l1, l2 \in Logins :
        (l1 # l2 /\ Outstanding(l1) /\ Outstanding(l2)) => lstate[l1] # lstate[l2]

\* C12, amended: a callback ends only the outstanding login attempts whose
\* token has the value it carries, and only when its own take found that
\* value; attempts holding another value stay outstanding.
C12_OnlyCarriedValueConsumed ==
    [][\A r \in Callbacks : \A l \in Logins :
          (TakeStep(r) /\ Outstanding(l) /\ ~Outstanding(l)')
          => (lstate[l] = cq[r].state /\ cpc'[r] = "send")]_vars

\* One attempt's token was consumed by its callback while an attempt with a
\* different token is still outstanding.
C12_Witness ==
    \E l1, l2 \in Logins : \E r \in Callbacks :
        /\ lpc[l1] = "done" /\ lresp[l1].status = 303
        /\ lstate[l1] = cq[r].state /\ Validated(r)
        /\ lstate[l2] # lstate[l1] /\ Outstanding(l2)

(***************************************************************************)
(* C13.  Every callback invocation that has started eventually returns,    *)
(* with exactly one of the outcomes Unauthorized (401, nothing sent),      *)
(* ExchangeFailed (500 after the request was sent) and Success (200 with   *)
(* the provider's body); the outcome is final, the invocation keeps no     *)
(* lock, and of the shared state its steps change only the registry, by    *)
(* removing the state it carries.                                          *)
(***************************************************************************)
Unauthorized(r) ==
    cpc[r] = "done" /\ cresp[r].status = 401 /\ crequest[r] = NoRequest
Failed(r) ==
    cpc[r] = "done" /\ cresp[r].status = 500 /\ crequest[r] # NoRequest
Success(r) ==
    cpc[r] = "done" /\ cresp[r].status = 200 /\ crequest[r] # NoRequest

C13_CallbackTerminates ==
    /\ \A r \in Callbacks : (cpc[r] # "idle") ~> (cpc[r] = "done")
    /\ [](\A r \in Callbacks :
            cpc[r] = "done"
            => /\ Unauthorized(r) \/ Failed(r) \/ Success(r)
               /\ guard # CallbackReq(r))
    /\ [][\A r \in Callbacks :
            /\ cpc[r] = "done" => (cpc'[r] = "done" /\ cresp'[r] = cresp[r])
            /\ cpc'[r] # cpc[r]
               => /\ registry' \in {registry, registry \ {cq'[r].state}}
                  /\ guard' \in {guard, NoHolder, CallbackReq(r)}
                  /\ UNCHANGED <<buildable, loginVars, contactVars>>
                  /\ \A x \in Callbacks \ {r} :
                       /\ cpc'[x] = cpc[x] /\ cq'[x] = cq[x]
                       /\ cresp'[x] = cresp[x]]_vars

\* All callbacks have returned, one Unauthorized and one after an exchange.
C13_Witness ==
    /\ \A r \in Callbacks : cpc[r] = "done"
    /\ \E r1, r2 \in Callbacks :
         Unauthorized(r1) /\ (Failed(r2) \/ Success(r2))

(***************************************************************************)
(* C14.  A callback sends its token request only in the step in which its  *)
(* own take removed its state from the registry, and it sends it once: an  *)
(* Unauthorized invocation has sent nothing, and one whose exchange failed *)
(* has sent exactly one request.                                           *)
(***************************************************************************)
C14_PostOnlyAfterOwnConsume ==
    [][\A r \in Callbacks :
          /\ posts'[r] # posts[r]
             => /\ posts[r] = 0 /\ posts'[r] = 1
                /\ TakeStep(r)
                /\ cq[r].state \in registry /\ cq[r].state \notin registry'
                /\ crequest'[r] = TokenRequest(cq[r].code)
          /\ (cpc'[r] = "done" /\ cresp'[r].status = 401) => posts'[r] = 0
          /\ (cpc'[r] = "done" /\ cresp'[r].status # 401) => posts'[r] = 1]_vars

\* One callback was rejected without sending, another sent once and failed.
C14_Witness ==
    \E r1, r2 \in Callbacks :
        /\ Unauthorized(r1) /\ posts[r1] = 0
        /\ Failed(r2) /\ posts[r2] = 1

(***************************************************************************)
(* C15.  A token in the registry leaves it only in the take of a callback  *)
(* that carries exactly that value and passes; every other step (a start   *)
(* login, a callback with another state, a rejected or failing callback)   *)
(* keeps it.                                                               *)
(***************************************************************************)
C15_TokenPersistsUntilConsumed ==
    [][\A t \in registry :
          t \notin registry'
          => \E r \in Callbacks :
                /\ TakeStep(r) /\ cq[r].state = t
                /\ cpc'[r] = "send"
                /\ registry' = registry \ {t}]_vars

\* A token is still registered after another login was started, a callback
\* for that other login failed its exchange and a callback with an unknown
\* state was rejected.
C15_Witness ==
    \E l1, l2 \in Logins : \E r1, r2 \in Callbacks :
        /\ lpc[l1] = "done" /\ lstate[l1] \in registry
        /\ lpc[l2] = "done" /\ lstate[l2] # lstate[l1]
        /\ cq[r1].state = lstate[l2] /\ Failed(r1)
        /\ cq[r2].state = ForgedState /\ Unauthorized(r2)

(***************************************************************************)
(* C16.  Every value in the registry is the state of a start-login request *)
(* that inserted it, and the registry grows only in the insert step of a   *)
(* start-login request, by that request's state: nothing a callback        *)
(* supplies is ever inserted.                                              *)
(***************************************************************************)
C16_RegistryOnlyMinted ==
    /\ [](/\ registry \subseteq {lstate[l] : l \in {x \in Logins : lpc[x] = "done"}}
          /\ ForgedState \notin registry)
    /\ [][~(registry' \subseteq registry)
          => \E l \in Logins :
                /\ lpc[l] = "insert" /\ lpc'[l] = "done"
                /\ registry' = registry \cup {lstate[l]}
                /\ UNCHANGED callbackVars]_vars

\* Callbacks with a made-up state and with a well-formed state that no
\* start-login minted were both rejected while a minted state is registered.
C16_Witness ==
    \E r1, r2 \in Callbacks :
        /\ cq[r1].state = ForgedState /\ Unauthorized(r1)
        /\ cq[r2].state \in random_alphanum(StateLen) /\ Unauthorized(r2)
        /\ \A l \in Logins : lpc[l] = "done" => lstate[l] # cq[r2].state
        /\ registry # {}

(***************************************************************************)
(* C17.  A start-login request that fails to build its query string or Uri *)
(* returns 500 and leaves the registry as it was; every registered token   *)
(* belongs to a request whose Uri was built and whose redirect carries it. *)
(***************************************************************************)
C17_FailedLoginLeavesRegistry ==
    /\ [][\A l \in Logins :
             (lpc[l] = "idle" /\ lpc'[l] = "done")
             => /\ registry' = registry
                /\ guard' = guard
                /\ lresp'[l].status = 500
                /\ luri'[l] = NoUri]_vars
    /\ [](\A t \in registry :
             \E l \in Logins :
                /\ lstate[l] = t /\ luri[l] # NoUri
                /\ lresp[l] = RedirectTo(UriToString(luri[l])))

\* A start-login request failed with 500, nothing is registered, and the
\* callback that brought the state it had drawn was rejected.
C17_Witness ==
    \E l \in Logins : \E r \in Callbacks :
        /\ lpc[l] = "done" /\ lresp[l].status = 500
        /\ registry = {}
        /\ cq[r].state = lstate[l] /\ Unauthorized(r)

(***************************************************************************)
(* C18.  A callback holds the registry mutex exactly inside its two        *)
(* critical sections, the take and the warning: when it is about to lock   *)
(* (on arrival and before the warning) it does not hold the mutex, so the  *)
(* second lock cannot block on its own first guard.                        *)
(***************************************************************************)
C18_NoRelockWhileHolding ==
    \A r \in Callbacks :
        /\ cpc[r] \in {"idle", "warn"} => guard # CallbackReq(r)
        /\ guard = CallbackReq(r) <=> cpc[r] \in {"take", "warned"}
        /\ (cpc[r] = "warn" /\ guard = NoHolder) => ENABLED CallbackWarnLock(r)

\* Between the take of a callback and its warning, a start-login request
\* holds the mutex.
C18_Witness ==
    \E r \in Callbacks : \E l \in Logins :
        /\ cpc[r] = "warn"
        /\ guard = LoginReq(l) /\ lpc[l] = "insert"

(***************************************************************************)
(* C19.  After any sequence of contact requests the list mutex can still   *)
(* be acquired, and the last delete or edit request, whatever its index,   *)
(* was answered with a redirect.                                           *)
(***************************************************************************)
C19_ContactListStaysUsable ==
    /\ ~poisoned
    /\ lastRequest.op \in {"delete_contact_request", "edit_contact_request"}
       => lastResponse.status = 303

====
